---- MODULE Spec2Model ----
(***************************************************************************)
(* Model of the optoma_web_api projector client: the session flag, the     *)
(* login protocol, the request executors _control / _info, and the retry   *)
(* loop that control() and info() build around them with                   *)
(* retrying.retry(retry_on_exception=self._control_retry,                  *)
(*                wait_fixed=..., stop_max_attempt_number=...).            *)
(*                                                                         *)
(* The client is synchronous and single-threaded, so a step of the model   *)
(* is one HTTP exchange together with all the code that runs up to the     *)
(* next exchange (or up to the sleep between two attempts).  The answers   *)
(* of the device are the inputs, drawn from small sets.                    *)
(***************************************************************************)
EXTENDS Naturals, Sequences, FiniteSets, TLC

\* Largest retry_limit_count a client is constructed with.
MaxLimit == 3
\* Number of public operations called on one client in a run.
MaxCalls == 2

VARIABLES
    _logged_in,          \* Projector._logged_in
    atop,                \* the requests.Session cookie jar holds an ATOP cookie
    _retry_limit_count,  \* Projector._retry_limit_count
    pc,                  \* where the running operation stands
    operation,           \* the public operation being executed
    attempt_number,      \* retrying's attempt_number of the running call
    exception,           \* the exception the current attempt raised
    outcome,             \* how the call ended: "ok" or the exception raised
    requests_sent,       \* requests sent to control.tgi / Info.htm in this call
    logins,              \* _login() invocations in this call
    waits,               \* sleeps between attempts in this call
    last,                \* the last HTTP exchange: endpoint and the answer
    calls,               \* operations called so far on this client
    challenge,           \* _login's local challenge, "" outside the login
    issued,              \* challenges the device has issued with its login page
    login_posts,         \* the bodies posted to /tgi/login.tgi so far, in order
    method,              \* the setter or trigger method called last
    argument,            \* the value it was called with
    posted,              \* the form fields it passed to control()
    raised,              \* the exception it raised, "none" when it returned
    control_result,      \* how its call of control() ended, "none" when it made none
    friendly_name,       \* the control subcommand run last, "none" when none was
    response_text,       \* the text handed to _parse_status_response
    parsed,              \* what _parse_status_response made of it
    device,              \* the device's state: its codes and their raw values
    monitor,             \* the status command's --monitor flag
    difference,          \* the status command's --difference flag
    cli,                 \* the status command: running, exited, or the exception
    status_result,       \* the status command's status_result
    previous_status,     \* the status command's previous_status
    emitted_result,      \* the status command's emitted_result
    echoed               \* what the last poll echoed, if anything

retry_vars == << _logged_in, atop, _retry_limit_count, pc, operation, attempt_number,
                 exception, outcome, requests_sent, logins, waits, last, calls >>

login_vars == << challenge, issued, login_posts >>

setter_vars == << method, argument, posted, raised, control_result >>

parse_vars == << response_text, parsed >>

status_vars == << device, monitor, difference, cli, status_result, previous_status,
                  emitted_result, echoed >>

vars == << _logged_in, atop, _retry_limit_count, pc, operation, attempt_number,
           exception, outcome, requests_sent, logins, waits, last, calls,
           challenge, issued, login_posts, method, argument, posted, raised,
           control_result, friendly_name,
           response_text, parsed, device, monitor, difference, cli, status_result,
           previous_status, emitted_result, echoed >>

----------------------------------------------------------------------------
\* The device's answers.

\* HTTP status codes the device answers with; 0 stands for no answer at all
\* (requests raises a ConnectionError).
Statuses == {200, 404, 500}
\* Bodies: a real answer, or the frameset that sends the browser to /login.htm.
Bodies == {"data", "login_frame"}
\* Login page bodies: with or without <input name="Challenge" value=...>.
LoginPages == {"challenge", "no_challenge"}

NoExchange == [endpoint |-> "none", status |-> 0, body |-> "none", cookie |-> FALSE]

ConnectionFailed(endpoint) ==
    [endpoint |-> endpoint, status |-> 0, body |-> "none", cookie |-> FALSE]

\* What the device can answer to a request to control.tgi or Info.htm.  The
\* device requires login: it serves data only to a session that holds the
\* ATOP cookie, and it may fall back to the login frameset at any time.
DeviceAnswers(endpoint, jar) ==
    {ConnectionFailed(endpoint)} \cup
    { [endpoint |-> endpoint, status |-> s, body |-> b, cookie |-> FALSE] :
        s \in Statuses, b \in {x \in Bodies : x = "data" => jar} }

\* What the device can answer to GET /login.htm.
LoginPageAnswers ==
    {ConnectionFailed("login.htm")} \cup
    { [endpoint |-> "login.htm", status |-> s, body |-> b, cookie |-> FALSE] :
        s \in Statuses, b \in LoginPages }

\* What the device can answer to POST /tgi/login.tgi.
LoginPostAnswers ==
    {ConnectionFailed("login.tgi")} \cup
    { [endpoint |-> "login.tgi", status |-> s, body |-> "data", cookie |-> c] :
        s \in Statuses, c \in BOOLEAN }

Endpoint(op) == IF op = "control" THEN "control.tgi" ELSE "Info.htm"

Operations == {"control", "info", "mac_address"}
Retried == {"control", "info"}

----------------------------------------------------------------------------
\* The executor and the retry classification.

\* requests.Response.raise_for_status as _control and _info use it: TRUE when
\* it raises HTTPError.
raise_for_status(status) == status >= 400 /\ status < 600

\* TRUE when _check_response_for_login_scheme raises NotLoggedIn.
_check_response_for_login_scheme(body) == body = "login_frame"

\* The exception _control / _info raise for an answer, "none" when they return.
_control(resp) ==
    IF resp.status = 0 THEN "ConnectionError"
    ELSE IF raise_for_status(resp.status) THEN "HTTPError"
    ELSE IF _check_response_for_login_scheme(resp.body) THEN "NotLoggedIn"
    ELSE "none"

\* _control_retry with the connection error sent through the re-login branch.
_control_retry_login_on_connection_error(exc) ==
    IF exc \in {"NotLoggedIn", "ConnectionError"} THEN "login" ELSE "raise"

\* _control_retry answering True for every exception but NotLoggedIn.
_control_retry_retries_http_error(exc) ==
    IF exc = "NotLoggedIn" THEN "login" ELSE "retry"

\* _control_retry: "login" when it forces a re-login before answering True,
\* "retry" when it answers True, "raise" when it answers False.
_control_retry(exc) ==
    IF exc = "NotLoggedIn" THEN "login"
    ELSE IF exc = "ConnectionError" THEN "retry"
    ELSE "raise"

\* stop_max_attempt_number compared with > instead of >=.
stop_max_attempt_number_off_by_one(n, limit) == n > limit

\* stop_max_attempt_number: no attempt follows attempt number n under limit.
stop_max_attempt_number(n, limit) == n >= limit

\* The first half of _login: "challenge" when the page yields the challenge,
\* otherwise the exception raised.
_login_page(resp) ==
    IF resp.status # 0 /\ resp.body = "challenge" THEN "challenge"
    ELSE "LoginPageFailure"

\* The credentials the client is constructed with (the defaults).
_username == "admin"
_password == "admin"

\* The challenge the device puts in the n-th login page it serves: every page
\* carries a fresh one.
ChallengeOf(n) == IF n = 1 THEN "abc123" ELSE "ch" \o ToString(n)

\* hashlib.md5(text.encode("utf8")).hexdigest(), kept symbolic: the digest
\* of a text is a value that determines the text.
md5_hexdigest(text) == "md5:" \o text

\* The login form hashed without the challenge of the page.
login_request_without_challenge(username, password, chall) ==
    [user |-> "0", Username |-> "1", Password |-> "", Challenge |-> "",
     Response |-> md5_hexdigest(username \o password)]

\* The login form with the password and the challenge in their fields.
login_request_in_the_clear(username, password, chall) ==
    [user |-> "0", Username |-> "1", Password |-> password, Challenge |-> chall,
     Response |-> md5_hexdigest(username \o password \o chall)]

\* The form _login posts to /tgi/login.tgi.
login_request(username, password, chall) ==
    [user |-> "0", Username |-> "1", Password |-> "", Challenge |-> "",
     Response |-> md5_hexdigest(username \o password \o chall)]

\* _login without the check for the ATOP cookie.
_login_post_without_cookie_check(resp) ==
    IF resp.status = 0 \/ raise_for_status(resp.status) THEN "LoginFailure" ELSE "ok"

\* The second half of _login: "ok" when the session becomes logged in,
\* otherwise the exception raised.
_login_post(resp) ==
    IF resp.status = 0 \/ raise_for_status(resp.status) THEN "LoginFailure"
    ELSE IF ~resp.cookie THEN "LoginFailure"
    ELSE "ok"

\* _login with self._logged_in = True moved before the cookie check.
_login_logged_in_before_cookie_check(resp, flag) ==
    IF resp.status # 0 /\ ~raise_for_status(resp.status) THEN TRUE ELSE flag

\* self._logged_in once the second half of _login has run: True on success,
\* untouched when it raises.
_login_logged_in(resp, flag) ==
    IF _login_post(resp) = "ok" THEN TRUE ELSE flag

----------------------------------------------------------------------------
\* A Python dict: its keys in insertion order and the value at each key.
EmptyDict == [keys |-> << >>, at |-> [k \in {} |-> << >>]]

\* No text has been parsed.
Unparsed == [raised |-> "unparsed", result |-> EmptyDict, pstr |-> << >>]

\* The poll echoed nothing.
NothingEchoed == [printed |-> FALSE, value |-> EmptyDict]

\* The status command has not been started.
NoStatusCommand ==
    /\ device = << >>
    /\ monitor = FALSE
    /\ difference = FALSE
    /\ cli = "none"
    /\ status_result = EmptyDict
    /\ previous_status = EmptyDict
    /\ emitted_result = EmptyDict
    /\ echoed = NothingEchoed

TypeOK ==
    /\ _logged_in \in BOOLEAN
    /\ atop \in BOOLEAN
    /\ _retry_limit_count \in 1..MaxLimit
    /\ pc \in {"idle", "request", "login_page", "login_post", "wait", "done"}
    /\ operation \in Operations \cup {"none"}
    /\ attempt_number \in 0..MaxLimit
    /\ exception \in {"none", "NotLoggedIn", "ConnectionError", "HTTPError"}
    /\ outcome \in {"none", "ok", "NotLoggedIn", "ConnectionError", "HTTPError",
                    "LoginPageFailure", "LoginFailure"}
    /\ requests_sent \in Nat
    /\ logins \in Nat
    /\ waits \in Nat
    /\ calls \in 0..MaxCalls
    /\ issued \in Nat
    /\ challenge \in {""} \cup {ChallengeOf(n) : n \in 1..issued}
    /\ login_posts \in Seq([user : {"0"}, Username : {"1"}, Password : {""},
                             Challenge : {""}, Response : STRING])

\* Projector.__init__: a client is constructed logged out, with an empty
\* cookie jar and the attempt limit the caller chose.
Constructed ==
    /\ _logged_in = FALSE
    /\ atop = FALSE
    /\ _retry_limit_count \in 1..MaxLimit
    /\ pc = "idle"
    /\ operation = "none"
    /\ attempt_number = 0
    /\ exception = "none"
    /\ outcome = "none"
    /\ requests_sent = 0
    /\ logins = 0
    /\ waits = 0
    /\ last = NoExchange
    /\ calls = 0
    /\ challenge = ""
    /\ issued = 0
    /\ login_posts = << >>
    /\ method = "none"
    /\ argument = [kind |-> "none", int |-> 0, str |-> ""]
    /\ posted = << >>
    /\ raised = "none"
    /\ control_result = "none"

\* A client on which nothing has been called yet.
Init ==
    /\ Constructed
    /\ friendly_name = "none"
    /\ response_text = << >>
    /\ parsed = Unparsed
    /\ NoStatusCommand

\* The caller invokes control() (status() and every setter and trigger go
\* through it), info() or mac_address().
Call(op) ==
    /\ pc = "idle"
    /\ calls < MaxCalls
    /\ calls' = calls + 1
    /\ operation' = op
    /\ pc' = "request"
    /\ attempt_number' = 1
    /\ exception' = "none"
    /\ outcome' = "none"
    /\ requests_sent' = 0
    /\ logins' = 0
    /\ waits' = 0
    /\ UNCHANGED << _logged_in, atop, _retry_limit_count, last >>
    /\ UNCHANGED login_vars
    /\ UNCHANGED setter_vars
    /\ UNCHANGED << parse_vars, status_vars, friendly_name >>

\* retrying's loop once retry_on_exception has answered True: raise the
\* attempt's exception when the limit is reached, sleep otherwise.
Rejected(exc) ==
    IF stop_max_attempt_number(attempt_number, _retry_limit_count)
    THEN pc' = "done" /\ outcome' = exc
    ELSE pc' = "wait" /\ outcome' = outcome

\* One attempt: the request of _control / _info, its checks, and for control()
\* and info() the classification of the exception by _control_retry up to the
\* point where _login sends its first request.
SendRequest(resp) ==
    /\ pc = "request"
    /\ last' = resp
    /\ requests_sent' = requests_sent + 1
    /\ exception' = _control(resp)
    /\ UNCHANGED << atop, _retry_limit_count, operation, attempt_number, waits, calls >>
    /\ UNCHANGED login_vars
    /\ UNCHANGED setter_vars
    /\ UNCHANGED << parse_vars, status_vars, friendly_name >>
    /\ IF _control(resp) = "none"
       THEN /\ pc' = "done"
            /\ outcome' = "ok"
            /\ UNCHANGED << _logged_in, logins >>
       ELSE IF operation \notin Retried
       THEN \* mac_address calls _info directly
            /\ pc' = "done"
            /\ outcome' = _control(resp)
            /\ UNCHANGED << _logged_in, logins >>
       ELSE IF _control_retry(_control(resp)) = "login"
       THEN /\ _logged_in' = FALSE
            /\ logins' = logins + 1
            /\ pc' = "login_page"
            /\ outcome' = outcome
       ELSE IF _control_retry(_control(resp)) = "retry"
       THEN /\ Rejected(_control(resp))
            /\ UNCHANGED << _logged_in, logins >>
       ELSE /\ pc' = "done"
            /\ outcome' = _control(resp)
            /\ UNCHANGED << _logged_in, logins >>

\* _login, first half: GET /login.htm and the extraction of the challenge.
\* An exception of _login leaves _control_retry and the retry loop.
LoginPage(resp) ==
    /\ pc = "login_page"
    /\ last' = resp
    /\ IF _login_page(resp) = "challenge"
       THEN pc' = "login_post" /\ outcome' = outcome
       ELSE pc' = "done" /\ outcome' = _login_page(resp)
    /\ issued' = IF resp.status # 0 /\ resp.body = "challenge" THEN issued + 1 ELSE issued
    /\ challenge' = IF _login_page(resp) = "challenge" THEN ChallengeOf(issued + 1) ELSE ""
    /\ UNCHANGED login_posts
    /\ UNCHANGED setter_vars
    /\ UNCHANGED << parse_vars, status_vars, friendly_name >>
    /\ UNCHANGED << _logged_in, atop, _retry_limit_count, operation, attempt_number,
                    exception, requests_sent, logins, waits, calls >>

\* _login, second half: POST /tgi/login.tgi, the cookie check, and on success
\* the rest of _control_retry and of retrying's loop.
LoginPost(resp) ==
    /\ pc = "login_post"
    /\ last' = resp
    /\ atop' = IF resp.status # 0 /\ resp.cookie THEN TRUE ELSE atop
    /\ login_posts' = Append(login_posts, login_request(_username, _password, challenge))
    /\ challenge' = ""
    /\ UNCHANGED issued
    /\ UNCHANGED setter_vars
    /\ UNCHANGED << parse_vars, status_vars, friendly_name >>
    /\ _logged_in' = _login_logged_in(resp, _logged_in)
    /\ IF _login_post(resp) = "ok"
       THEN Rejected(exception)
       ELSE /\ pc' = "done"
            /\ outcome' = _login_post(resp)
    /\ UNCHANGED << _retry_limit_count, operation, attempt_number, exception,
                    requests_sent, logins, waits, calls >>

\* time.sleep(wait_fixed) and the next turn of retrying's loop.
Wait ==
    /\ pc = "wait"
    /\ pc' = "request"
    /\ attempt_number' = attempt_number + 1
    /\ waits' = waits + 1
    /\ UNCHANGED << _logged_in, atop, _retry_limit_count, operation, exception,
                    outcome, requests_sent, logins, last, calls >>
    /\ UNCHANGED login_vars
    /\ UNCHANGED setter_vars
    /\ UNCHANGED << parse_vars, status_vars, friendly_name >>

\* The call returns or raises to its caller.
Return ==
    /\ pc = "done"
    /\ pc' = "idle"
    /\ UNCHANGED << _logged_in, atop, _retry_limit_count, operation, attempt_number,
                    exception, outcome, requests_sent, logins, waits, last, calls >>
    /\ UNCHANGED login_vars
    /\ UNCHANGED setter_vars
    /\ UNCHANGED << parse_vars, status_vars, friendly_name >>

Next ==
    \/ \E op \in Operations : Call(op)
    \/ \E resp \in DeviceAnswers(Endpoint(operation), atop) : SendRequest(resp)
    \/ \E resp \in LoginPageAnswers : LoginPage(resp)
    \/ \E resp \in LoginPostAnswers : LoginPost(resp)
    \/ Wait
    \/ Return

Spec == Init /\ [][Next]_vars

\* The client with a device and a clock that do their part: every HTTP
\* request sent eventually returns or raises, and time.sleep returns.  The
\* caller is under no obligation to call.
FairSpec ==
    /\ Spec
    /\ WF_vars(\E resp \in DeviceAnswers(Endpoint(operation), atop) : SendRequest(resp))
    /\ WF_vars(\E resp \in LoginPageAnswers : LoginPage(resp))
    /\ WF_vars(\E resp \in LoginPostAnswers : LoginPost(resp))
    /\ WF_vars(Wait)

----------------------------------------------------------------------------
\* The value mapping registry (the module-level tables).

VALUE_NOT_AVAILABLE == "N/A"

\* The two kinds of entry of STATUS_VALUE_MAP: a table from wire value to
\* label, or the type int.
Mapping(table) == [kind |-> "mapping", table |-> table]
IntType == [kind |-> "int", table |-> << >>]

STATUS_VALUE_MAP ==
    "Power Status" :> Mapping(
            "0" :> "Off" @@ "1" :> "On")
    @@ "Source" :> Mapping(
            "0" :> "HDMI 1" @@ "1" :> "HDMI 2/MHL" @@ "2" :> "VGA")
    @@ "Display Mode" :> Mapping(
            "0" :> "Presentation" @@ "1" :> "Bright"
            @@ "2" :> "Unknown 3D Mode 1" @@ "3" :> "Unknown 3D Mode 2"
            @@ "4" :> "HDR SIM." @@ "5" :> "Cinema" @@ "6" :> "Game"
            @@ "7" :> "sRGB" @@ "8" :> "DICOM SIM" @@ "9" :> "HDR2"
            @@ "255" :> VALUE_NOT_AVAILABLE)
    @@ "Brightness" :> IntType
    @@ "Contrast" :> IntType
    @@ "Sharpness" :> IntType
    @@ "Projection" :> Mapping(
            "0" :> "Front" @@ "1" :> "Ceiling-top" @@ "2" :> "Rear"
            @@ "3" :> "Rear-top")
    @@ "Brightness Mode" :> Mapping(
            "0" :> VALUE_NOT_AVAILABLE @@ "4" :> "DynamicBlack 1"
            @@ "5" :> "DynamicBlack 2" @@ "6" :> "DynamicBlack 3"
            @@ "7" :> "Power 100%" @@ "8" :> "Power 95%" @@ "9" :> "Power 90%"
            @@ "10" :> "Power 85%" @@ "11" :> "Power 80%"
            @@ "12" :> "Power 75%" @@ "13" :> "Power 70%"
            @@ "14" :> "Power 65%" @@ "15" :> "Power 60%"
            @@ "16" :> "Power 55%" @@ "17" :> "Power 50%")
    @@ "AV Mute" :> Mapping(
            "0" :> "Off" @@ "1" :> "On")
    @@ "Power Mode" :> Mapping(
            "0" :> "Active" @@ "1" :> "Eco.")
    @@ "Freeze" :> Mapping(
            "0" :> "Off" @@ "1" :> "On")
    @@ "Logo" :> Mapping(
            "0" :> "Default" @@ "2" :> "Neutral")
    @@ "Color Space" :> Mapping(
            "0" :> "Auto" @@ "1" :> "RGB" @@ "2" :> "RGB(0-255)"
            @@ "3" :> "RGB(16-235)" @@ "4" :> "YUV")
    @@ "Zoom" :> IntType
    @@ "Auto Power Off" :> IntType
    @@ "Background Color" :> Mapping(
            "0" :> "None" @@ "1" :> "Blue" @@ "2" :> "Red" @@ "3" :> "Green"
            @@ "4" :> "Gray")
    @@ "Wall Color" :> Mapping(
            "0" :> "Off" @@ "1" :> "BlackBoard" @@ "2" :> "Light Yellow"
            @@ "3" :> "Light Green" @@ "4" :> "Light Blue" @@ "5" :> "Pink"
            @@ "6" :> "Gray")
    @@ "Always On" :> Mapping(
            "0" :> "Off" @@ "1" :> "On")
    @@ "Phase" :> IntType
    @@ "BrilliantColor" :> IntType
    @@ "Gamma" :> Mapping(
            "0" :> "Film" @@ "1" :> "Video" @@ "2" :> "Graphics"
            @@ "3" :> "Standard(2.2)" @@ "4" :> "1.8" @@ "5" :> "2.0"
            @@ "6" :> "2.4" @@ "7" :> "3D" @@ "8" :> "2.6" @@ "9" :> "HDR"
            @@ "10" :> "HLG" @@ "11" :> "Blackboard" @@ "12" :> "DICOM SIM"
            @@ "255" :> VALUE_NOT_AVAILABLE)
    @@ "Color Temperature" :> Mapping(
            "0" :> "Warm" @@ "1" :> "Standard" @@ "2" :> "Cool"
            @@ "3" :> "Cold")
    @@ "Sleep" :> IntType
    @@ "Aspect Ratio" :> Mapping(
            "0" :> "4:3" @@ "1" :> "16:9" @@ "3" :> "LBX" @@ "4" :> "Native"
            @@ "5" :> "Auto" @@ "6" :> "SuperWide"
            @@ "255" :> VALUE_NOT_AVAILABLE)
    @@ "Horizontal Image Shift" :> IntType
    @@ "Vertical Image Shift" :> IntType
    @@ "High Altitude" :> Mapping(
            "0" :> "Off" @@ "1" :> "On")
    @@ "Direct Power On" :> Mapping(
            "0" :> "Off" @@ "1" :> "On")
    @@ "Projector ID" :> IntType
    @@ "Information Hide" :> Mapping(
            "0" :> "Off" @@ "1" :> "On")
    @@ "Display Mode Lock" :> Mapping(
            "0" :> "Off" @@ "1" :> "On")
    @@ "Keypad Lock" :> Mapping(
            "0" :> "Off" @@ "1" :> "On")

\* None, and a field name, as STATUS_TO_NAME_MAP holds them.
None == << >>
Name(field) == << field >>

\* The table of a device whose code j carries the contrast.
STATUS_TO_NAME_MAP_naming_j ==
    "pw" :> Name("Power Status") @@ "c" :> Name("Brightness") @@ "j" :> Name("Contrast")

\* The table with the code c under a name STATUS_VALUE_MAP does not have.
STATUS_TO_NAME_MAP_naming_luminance ==
    "pw" :> Name("Power Status") @@ "c" :> Name("Luminance") @@ "j" :> None

STATUS_TO_NAME_MAP ==
    "pw" :> Name("Power Status") @@ "a" :> Name("Source")
    @@ "b" :> Name("Display Mode") @@ "c" :> Name("Brightness")
    @@ "d" :> Name("Contrast") @@ "f" :> Name("Sharpness")
    @@ "t" :> Name("Projection") @@ "h" :> Name("Brightness Mode")
    @@ "j" :> None @@ "k" :> Name("AV Mute") @@ "l" :> Name("Power Mode")
    @@ "m" :> None @@ "n" :> Name("Freeze") @@ "o" :> Name("Logo")
    @@ "p" :> None @@ "q" :> Name("Color Space") @@ "r" :> Name("Zoom")
    @@ "u" :> Name("Auto Power Off") @@ "v" :> None @@ "w" :> None
    @@ "x" :> Name("Background Color") @@ "y" :> Name("Wall Color")
    @@ "z" :> Name("Always On") @@ "A" :> Name("Phase")
    @@ "B" :> Name("BrilliantColor") @@ "C" :> Name("Gamma")
    @@ "D" :> Name("Color Temperature") @@ "E" :> None
    @@ "H" :> Name("Sleep") @@ "I" :> None @@ "K" :> None
    @@ "L" :> Name("Aspect Ratio") @@ "M" :> Name("Horizontal Image Shift")
    @@ "N" :> Name("Vertical Image Shift") @@ "O" :> Name("High Altitude")
    @@ "P" :> Name("Direct Power On") @@ "Q" :> Name("Projector ID")
    @@ "R" :> None @@ "S" :> None @@ "T" :> None
    @@ "V" :> Name("Information Hide") @@ "W" :> Name("Display Mode Lock")
    @@ "Y" :> Name("Keypad Lock") @@ "e" :> None @@ "g" :> None
    @@ "Z" :> None

\* The back-mapping of labels to wire values: one table per field whose
\* STATUS_VALUE_MAP entry is a mapping (the labels of a table are distinct).
STATUS_VALUE_TO_CODE_MAP ==
    [k \in {f \in DOMAIN STATUS_VALUE_MAP : STATUS_VALUE_MAP[f].kind = "mapping"} |->
        LET table == STATUS_VALUE_MAP[k].table
        IN  [sv \in {table[sk] : sk \in DOMAIN table} |->
                CHOOSE sk \in DOMAIN table : table[sk] = sv]]

----------------------------------------------------------------------------
\* The command dispatcher: the public methods that post one form field.

\* The methods that take no argument and post a fixed field.
Trigger(param, text) == [arg |-> "none", param |-> param, text |-> text, field |-> ""]
\* The methods that post str(value).
IntSetter(param) == [arg |-> "int", param |-> param, text |-> "", field |-> ""]
\* The methods that take an int or a label of the field they set.
LabelSetter(param, field) == [arg |-> "label", param |-> param, text |-> "", field |-> field]

Methods ==
    "power_off" :> Trigger("btn_powoff", "Power Off")
    @@ "power_on" :> Trigger("btn_powon", "Power On")
    @@ "resync" :> Trigger("resync", "Resync")
    @@ "reset" :> Trigger("reset", "Reset")
    @@ "avmute" :> Trigger("avmute", "AV Mute")
    @@ "freeze" :> Trigger("freeze", "AV Mute")
    @@ "infohide" :> Trigger("infohide", "Information Hide")
    @@ "altitude" :> Trigger("altitude", "High Altitude")
    @@ "keypad" :> Trigger("keypad", "Keypad Lock")
    @@ "dismdlocked" :> Trigger("dismdlocked", "Display Mode Lock")
    @@ "directpwon" :> Trigger("directpwon", "Direct Power On")
    @@ "alwayson" :> Trigger("alwayson", "Always On")
    @@ "source" :> LabelSetter("source", "Source")
    @@ "brightness" :> IntSetter("bright")
    @@ "contrast" :> IntSetter("contrast")
    @@ "sharpness" :> IntSetter("Sharp")
    @@ "phase" :> IntSetter("Phase")
    @@ "brilliantcolor" :> IntSetter("brill")
    @@ "gamma" :> LabelSetter("Degamma", "Gamma")
    @@ "color_temperature" :> LabelSetter("colortmp", "Color Temperature")
    @@ "display_mode" :> LabelSetter("dismode", "Display Mode")
    @@ "color_space" :> LabelSetter("colorsp", "Color Space")
    @@ "aspect_ratio" :> LabelSetter("aspect1", "Aspect Ratio")
    @@ "projection" :> LabelSetter("projection", "Projection")
    @@ "zoom" :> IntSetter("zoom")
    @@ "horizontal_image_shift" :> IntSetter("hpos")
    @@ "vertical_image_shift" :> IntSetter("vpos")
    @@ "auto_power_off" :> IntSetter("autopw")
    @@ "sleep_timer" :> IntSetter("sleep")
    @@ "projector_id" :> IntSetter("projid")
    @@ "background_color" :> LabelSetter("background", "Background Color")
    @@ "wall_color" :> LabelSetter("wall", "Wall Color")
    @@ "logo" :> LabelSetter("logo", "Logo")
    @@ "power_mode" :> LabelSetter("pwmode", "Power Mode")
    @@ "brightness_mode" :> LabelSetter("lampmd", "Brightness Mode")

\* Arguments a caller passes: an int, or a string.
IntArg(n) == [kind |-> "int", int |-> n, str |-> ""]
StrArg(s) == [kind |-> "str", int |-> 0, str |-> s]
NoArg == [kind |-> "none", int |-> 0, str |-> ""]

\* What a method posts as the value of its field: a string, or (when the
\* lookup returned a whole table) the dict of the named field.
StrValue(s) == [kind |-> "str", val |-> s]
DictValue(field) == [kind |-> "dict", val |-> field]
Raises(exc) == [kind |-> "raise", val |-> exc]

\* str(value) for an int.
str(n) == ToString(n)

\* set_value = str(value) if isinstance(value, int) else STATUS_VALUE_TO_CODE_MAP[value]
set_value(value) ==
    IF value.kind = "int" THEN StrValue(str(value.int))
    ELSE IF value.str \in DOMAIN STATUS_VALUE_TO_CODE_MAP THEN DictValue(value.str)
    ELSE Raises("KeyError")

\* set_value = str(value) of the setters that take an int.
int_set_value(value) ==
    IF value.kind = "int" THEN StrValue(str(value.int)) ELSE StrValue(value.str)

\* The form field a method passes to control(), or the exception it raises
\* before calling it.
posted_value(m, value) ==
    IF Methods[m].arg = "none" THEN StrValue(Methods[m].text)
    ELSE IF Methods[m].arg = "int" THEN int_set_value(value)
    ELSE set_value(value)

\* power_status: the method it hands over to, or the exception of the lookup.
power_status(value) ==
    IF set_value(value).kind = "raise" THEN set_value(value)
    ELSE IF set_value(value) = StrValue("1") THEN StrValue("power_on")
    ELSE StrValue("power_off")

\* How control() can end for the caller (see Spec): it returns, or raises the
\* exception of its last attempt or of the re-login.
ControlOutcomes ==
    {"ok", "NotLoggedIn", "ConnectionError", "HTTPError", "LoginPageFailure", "LoginFailure"}

\* Largest int a caller passes.
MaxInt == 2

\* The arguments tried on the setter of a field: ints, every label of the
\* field's table, a label of another table, field names (the keys of the
\* back-mapping) and a string that is neither.
Arguments(field) ==
    {IntArg(n) : n \in 0..MaxInt}
    \cup {StrArg(s) : s \in {"Bogus", "Eco.", "Source", "Power Status"}}
    \cup {StrArg(s) : s \in IF field \in DOMAIN STATUS_VALUE_TO_CODE_MAP
                              THEN DOMAIN STATUS_VALUE_TO_CODE_MAP[field] \cup {field}
                              ELSE {}}

\* except Exception as e: logger.warning(...); raise e
\* What the method raises when control() raised e.
reraise_swallowed(e) == "none"

reraise(e) == e

\* A method that posts one field: the lookup, then control(form) inside
\* try/except that logs and re-raises; result is how control() ends.
Invoke(m, value, result) ==
    /\ method' = m
    /\ argument' = value
    /\ IF posted_value(m, value).kind = "raise"
       THEN /\ posted' = << >>
            /\ raised' = posted_value(m, value).val
            /\ control_result' = "none"
       ELSE /\ posted' = << [param |-> Methods[m].param, value |-> posted_value(m, value)] >>
            /\ control_result' = result
            /\ raised' = IF result = "ok" THEN "none" ELSE reraise(result)

\* A caller invokes the method on an idle client.
Setter(m, value, result) ==
    /\ pc = "idle"
    /\ Invoke(m, value, result)
    /\ UNCHANGED retry_vars
    /\ UNCHANGED login_vars
    /\ UNCHANGED << parse_vars, status_vars, friendly_name >>

\* power_status(value): the lookup, then power_on() or power_off().
InvokePowerStatus(value, result) ==
    /\ method' = "power_status"
    /\ argument' = value
    /\ IF power_status(value).kind = "raise"
       THEN /\ posted' = << >>
            /\ raised' = power_status(value).val
            /\ control_result' = "none"
       ELSE /\ posted' = << [param |-> Methods[power_status(value).val].param,
                             value |-> posted_value(power_status(value).val, NoArg)] >>
            /\ control_result' = result
            /\ raised' = IF result = "ok" THEN "none" ELSE reraise(result)

\* A caller invokes power_status on an idle client.
PowerStatus(value, result) ==
    /\ pc = "idle"
    /\ InvokePowerStatus(value, result)
    /\ UNCHANGED retry_vars
    /\ UNCHANGED login_vars
    /\ UNCHANGED << parse_vars, status_vars, friendly_name >>

NextSetter ==
    \/ \E m \in {x \in DOMAIN Methods : Methods[x].arg = "none"}, r \in ControlOutcomes :
            Setter(m, NoArg, r)
    \/ \E m \in {x \in DOMAIN Methods : Methods[x].arg # "none"} :
          \E v \in Arguments(Methods[m].field), r \in ControlOutcomes : Setter(m, v, r)
    \/ \E v \in Arguments("Power Status"), r \in ControlOutcomes : PowerStatus(v, r)

SpecSetter == Init /\ [][NextSetter]_vars

----------------------------------------------------------------------------
\* The status grammar parser.  A text is a sequence of characters.

Alphas ==
    {"a", "b", "c", "d", "e", "f", "g", "h", "i", "j", "k", "l", "m",
     "n", "o", "p", "q", "r", "s", "t", "u", "v", "w", "x", "y", "z",
     "A", "B", "C", "D", "E", "F", "G", "H", "I", "J", "K", "L", "M",
     "N", "O", "P", "Q", "R", "S", "T", "U", "V", "W", "X", "Y", "Z"}

\* The characters pyparsing skips in front of every token.
Whitespace == {" ", "\t", "\n", "\r"}

\* The string of a sequence of characters.
RECURSIVE Join(_)
Join(chars) == IF chars = << >> THEN "" ELSE Head(chars) \o Join(Tail(chars))

RECURSIVE skip_whitespace(_, _)
skip_whitespace(t, i) ==
    IF i <= Len(t) /\ t[i] \in Whitespace THEN skip_whitespace(t, i + 1) ELSE i

\* A token that did not match; next = 0 says so.
NoToken == [next |-> 0, tok |-> << >>]

\* pp.Char(c): the position after the character, 0 when it is not there.
Char(t, i, c) ==
    LET j == skip_whitespace(t, i)
    IN  IF j <= Len(t) /\ t[j] = c THEN j + 1 ELSE 0

RECURSIVE word_end(_, _)
word_end(t, i) == IF i <= Len(t) /\ t[i] \in Alphas THEN word_end(t, i + 1) ELSE i

\* pp.Word(pp.alphas): the longest run of letters.
Word(t, i) ==
    LET j == skip_whitespace(t, i)
        end == word_end(t, j)
    IN  IF j <= Len(t) /\ t[j] \in Alphas
        THEN [next |-> end, tok |-> SubSeq(t, j, end - 1)]
        ELSE NoToken

\* The position of the closing quote, 0 when the line ends before it.
RECURSIVE quote_end(_, _)
quote_end(t, i) ==
    IF i > Len(t) \/ t[i] \in {"\n", "\r"} THEN 0
    ELSE IF t[i] = "\"" THEN i
    ELSE quote_end(t, i + 1)

\* pp.QuotedString('"'): the text between two double quotes.
QuotedString(t, i) ==
    LET j == skip_whitespace(t, i)
        close == quote_end(t, j + 1)
    IN  IF j <= Len(t) /\ t[j] = "\"" /\ close # 0
        THEN [next |-> close + 1, tok |-> SubSeq(t, j + 1, close - 1)]
        ELSE NoToken

\* pp.Group(Word + ":" + QuotedString) + pp.Optional(","): the pair and the
\* position after it, next = 0 when the group does not match.
status_pair(t, i) ==
    LET w == Word(t, i)
        colon == Char(t, w.next, ":")
        q == QuotedString(t, colon)
        comma == Char(t, q.next, ",")
    IN  IF w.next = 0 \/ colon = 0 \/ q.next = 0
        THEN [next |-> 0, pair |-> << >>]
        ELSE [next |-> IF comma = 0 THEN q.next ELSE comma,
              pair |-> << Join(w.tok), q.tok >>]

\* The repetition: pairs are taken as long as one matches.
RECURSIVE status_pairs(_, _, _)
status_pairs(t, i, acc) ==
    LET p == status_pair(t, i)
    IN  IF p.next = 0
        THEN [next |-> i, pairs |-> acc]
        ELSE status_pairs(t, p.next, Append(acc, p.pair))

\* status_grammer.parse_string(text): "{", pp.OneOrMore of the pairs, "}";
\* what follows the closing brace is not looked at (parse_all is off).
status_grammer(t) ==
    LET open == Char(t, 1, "{")
        r == status_pairs(t, open, << >>)
    IN  IF open = 0 THEN [ok |-> FALSE, pairs |-> << >>]
        ELSE IF Len(r.pairs) = 0 THEN [ok |-> FALSE, pairs |-> << >>]
        ELSE IF Char(t, r.next, "}") = 0 THEN [ok |-> FALSE, pairs |-> << >>]
        ELSE [ok |-> TRUE, pairs |-> r.pairs]

\* A Python dict built from pairs: the keys in order of first insertion and
\* for each key the value inserted last.
RECURSIVE dict_keys(_, _)
dict_keys(pairs, acc) ==
    IF pairs = << >> THEN acc
    ELSE dict_keys(Tail(pairs),
                   IF \E i \in 1..Len(acc) : acc[i] = Head(pairs)[1]
                   THEN acc ELSE Append(acc, Head(pairs)[1]))

dict(pairs) ==
    [keys |-> dict_keys(pairs, << >>),
     at |-> [k \in {pairs[i][1] : i \in 1..Len(pairs)} |->
                pairs[CHOOSE i \in 1..Len(pairs) :
                        /\ pairs[i][1] = k
                        /\ \A j \in 1..Len(pairs) : pairs[j][1] = k => j <= i][2]]]

\* _parse_status_response: the dict of the pairs, or the ParseException of
\* pyparsing, which carries the text it was given (pstr).
_parse_status_response(status_response) ==
    LET parsed_response == status_grammer(status_response)
    IN  IF parsed_response.ok
        THEN [raised |-> "none", result |-> dict(parsed_response.pairs), pstr |-> << >>]
        ELSE [raised |-> "ParseException", result |-> EmptyDict, pstr |-> status_response]

\* The wire codes and raw values the device is tried with: an enumerated
\* field, an int field, a reserved code (None) and a code the tables lack.
Codes == {<< "p", "w" >>, << "c" >>, << "j" >>, << "G" >>}
RawValues == {<< "1" >>, << "9" >>, << "5", "0" >>, << "6", "0" >>}

\* Largest number of pairs in a text given to the parser.
MaxPairs == 2

PairSeqs == UNION {[1..n -> Codes \X RawValues] : n \in 0..MaxPairs}

\* The device's blob for a sequence of pairs: {pw:"1",c:"50"}.
RECURSIVE render_pairs(_)
render_pairs(pairs) ==
    IF pairs = << >> THEN << >>
    ELSE Head(pairs)[1] \o << ":", "\"" >> \o Head(pairs)[2] \o << "\"" >>
         \o (IF Len(pairs) > 1 THEN << "," >> ELSE << >>) \o render_pairs(Tail(pairs))

render(pairs) == << "{" >> \o render_pairs(pairs) \o << "}" >>

\* The text without the first / the last occurrence of a character.
RECURSIVE remove_first(_, _)
remove_first(t, c) ==
    IF t = << >> THEN << >>
    ELSE IF Head(t) = c THEN Tail(t)
    ELSE << Head(t) >> \o remove_first(Tail(t), c)

RECURSIVE remove_last(_, _)
remove_last(t, c) ==
    IF t = << >> THEN << >>
    ELSE IF t[Len(t)] = c THEN SubSeq(t, 1, Len(t) - 1)
    ELSE remove_last(SubSeq(t, 1, Len(t) - 1), c) \o << t[Len(t)] >>

\* Ways a blob arrives: whole, without one of its separating commas, or damaged.
Damages == {"none", "no_comma", "truncated", "no_colon", "unterminated", "trailing"}

damaged(t, how) ==
    CASE how = "none" -> t
      [] how = "truncated" -> SubSeq(t, 1, Len(t) - 1)
      [] how = "no_colon" -> remove_first(t, ":")
      [] how = "unterminated" -> remove_last(t, "\"")
      [] how = "trailing" -> t \o << "x" >>
      [] how = "no_comma" -> remove_first(t, ",")

Texts == {damaged(render(ps), how) : ps \in PairSeqs, how \in Damages}

\* _parse_status_response applied to a text.
ParseStatusResponse ==
    /\ parsed = Unparsed
    /\ parsed' = _parse_status_response(response_text)
    /\ UNCHANGED response_text
    /\ UNCHANGED << retry_vars, login_vars, setter_vars, friendly_name >>
    /\ UNCHANGED status_vars

\* A client, and a text handed to the parser.
InitParse ==
    /\ Constructed
    /\ friendly_name = "none"
    /\ NoStatusCommand
    /\ response_text \in Texts
    /\ parsed = Unparsed

NextParse == ParseStatusResponse

SpecParse == InitParse /\ [][NextParse]_vars

----------------------------------------------------------------------------
\* status(): the translation of a parsed response.

IntValue(n) == [kind |-> "int", val |-> n]

Digits ==
    "0" :> 0 @@ "1" :> 1 @@ "2" :> 2 @@ "3" :> 3 @@ "4" :> 4
    @@ "5" :> 5 @@ "6" :> 6 @@ "7" :> 7 @@ "8" :> 8 @@ "9" :> 9

RECURSIVE int_digits(_, _)
int_digits(chars, acc) ==
    IF chars = << >> THEN acc
    ELSE int_digits(Tail(chars), 10 * acc + Digits[Head(chars)])

\* int(value) of a string of decimal digits; ValueError for any other string
\* the device is tried with.
int(value) ==
    IF value # << >> /\ \A i \in 1..Len(value) : value[i] \in DOMAIN Digits
    THEN IntValue(int_digits(value, 0))
    ELSE Raises("ValueError")

\* The body of the loop over status.items(): the value stored under name.
translate_passes_raw_label(name, value) ==
    IF name \notin DOMAIN STATUS_VALUE_MAP THEN Raises("NotImplementedError")
    ELSE IF STATUS_VALUE_MAP[name].kind = "mapping" THEN StrValue(Join(value))
    ELSE int(value)

translate(name, value) ==
    IF name \notin DOMAIN STATUS_VALUE_MAP THEN Raises("NotImplementedError")
    ELSE IF STATUS_VALUE_MAP[name].kind = "mapping"
    THEN StrValue(IF Join(value) \in DOMAIN STATUS_VALUE_MAP[name].table
                  THEN STATUS_VALUE_MAP[name].table[Join(value)]
                  ELSE Join(value))
    ELSE int(value)

\* STATUS_TO_NAME_MAP[k] is not None
has_name(k) == STATUS_TO_NAME_MAP[k] # None

\* _status_request: resp.text.replace("\n", "")
RECURSIVE replace_newline(_)
replace_newline(t) ==
    IF t = << >> THEN << >>
    ELSE IF Head(t) = "\n" THEN replace_newline(Tail(t))
    ELSE << Head(t) >> \o replace_newline(Tail(t))

\* status = {STATUS_TO_NAME_MAP[k]: v for ... if STATUS_TO_NAME_MAP[k] is not None}:
\* the names of the codes that have one, in the order of the response.
status_names(codes) ==
    LET named == SelectSeq(codes, has_name)
    IN  [i \in 1..Len(named) |-> STATUS_TO_NAME_MAP[named[i]][1]]

\* The code of the response that carries the field of a name.
code_of(result, name) ==
    CHOOSE k \in DOMAIN result.at :
        k \in DOMAIN STATUS_TO_NAME_MAP /\ STATUS_TO_NAME_MAP[k] = Name(name)

\* The loop over status.items(): every name with its translated value.
result_status(result, names) ==
    [keys |-> names,
     at |-> [n \in {names[i] : i \in 1..Len(names)} |->
                translate(n, result.at[code_of(result, n)])]]

\* The loop ends with the first exception a translation raises.
translated(d) ==
    LET failing == {i \in 1..Len(d.keys) : d.at[d.keys[i]].kind = "raise"}
    IN  IF failing = {} THEN [raised |-> "none", result |-> d]
        ELSE [raised |-> d.at[d.keys[CHOOSE i \in failing : \A j \in failing : i <= j]].val,
              result |-> EmptyDict]

\* status() from the parsed response on.  STATUS_TO_NAME_MAP[k] raises
\* KeyError for a code that is not a key of the table.
status_of(p) ==
    IF p.raised # "none" THEN [raised |-> p.raised, result |-> EmptyDict]
    ELSE IF \E k \in DOMAIN p.result.at : k \notin DOMAIN STATUS_TO_NAME_MAP
    THEN [raised |-> "KeyError", result |-> EmptyDict]
    ELSE translated(result_status(p.result, status_names(p.result.keys)))

\* A status() that reports only the fields that differ from the last read.
status_reporting_changes(status_text) ==
    LET read == status_of(_parse_status_response(status_text))
        differs(k) == k \notin DOMAIN status_result.at \/ status_result.at[k] # read.result.at[k]
    IN  IF read.raised # "none" THEN read
        ELSE [raised |-> "none",
              result |-> [keys |-> SelectSeq(read.result.keys, differs),
                          at |-> [k \in {n \in DOMAIN read.result.at : differs(n)} |->
                                     read.result.at[k]]]]

\* status() on the text _status_request returned: the translated dict, or the
\* exception that ends it.
status(status_text) == status_of(_parse_status_response(status_text))

----------------------------------------------------------------------------
\* The status command of the command line: the polling loop.

\* { k:v for k,v in status_result.items()
\*   if k not in previous_status or previous_status.get(k) != status_result.get(k) }
changed(current, previous) ==
    LET differs(k) == k \notin DOMAIN previous.at \/ previous.at[k] # current.at[k]
    IN  [keys |-> SelectSeq(current.keys, differs),
         at |-> [k \in {n \in DOMAIN current.at : differs(n)} |-> current.at[k]]]

\* previous_status = status_result
previous_status_never_updated(current, previous) == previous

next_previous_status(current, previous) == current

\* The values the device is tried with for each of its codes.
DeviceValues ==
    << "p", "w" >> :> {<< "1" >>, << "9" >>}
    @@ << "c" >> :> {<< "5", "0" >>, << "6", "0" >>}
    @@ << "j" >> :> {<< "1" >>}
    @@ << "G" >> :> {<< "1" >>}

\* The order in which the device lists its codes.
CodeOrder == << << "p", "w" >>, << "c" >>, << "j" >>, << "G" >> >>

\* The states of the device: the codes it reports and their raw values.
Devices ==
    UNION {{d \in [S -> RawValues] : \A c \in S : d[c] \in DeviceValues[c]} : S \in SUBSET Codes}

\* The blob the device answers QueryControl with.
blob(d) ==
    LET reported(c) == c \in DOMAIN d
        listed == SelectSeq(CodeOrder, reported)
    IN  render([i \in 1..Len(listed) |-> << listed[i], d[listed[i]] >>])

\* One iteration of the loop: projector.status(), the delta, the echo.
\* result is how control() ends; newline says whether the device ends its
\* answer with a line feed.  An exception ends the command.
Poll(result, newline) ==
    /\ pc = "idle"
    /\ cli = "running"
    /\ IF result # "ok"
       THEN /\ cli' = result
            /\ response_text' = << >>
            /\ parsed' = Unparsed
            /\ UNCHANGED << status_result, previous_status, emitted_result, echoed >>
       ELSE /\ response_text' = replace_newline(blob(device) \o (IF newline THEN << "\n" >> ELSE << >>))
            /\ parsed' = _parse_status_response(response_text')
            /\ LET returned == status(response_text')
               IN
               IF returned.raised # "none"
               THEN /\ cli' = returned.raised
                    /\ UNCHANGED << status_result, previous_status, emitted_result, echoed >>
               ELSE /\ status_result' = returned.result
                    /\ emitted_result' = IF difference
                                         THEN changed(status_result', previous_status)
                                         ELSE status_result'
                    /\ previous_status' = next_previous_status(status_result', previous_status)
                    /\ echoed' = IF Len(emitted_result'.keys) # 0
                                 THEN [printed |-> TRUE, value |-> emitted_result']
                                 ELSE NothingEchoed
                    /\ cli' = IF monitor THEN "running" ELSE "exited"
    /\ UNCHANGED << device, monitor, difference >>
    /\ UNCHANGED << retry_vars, login_vars, setter_vars, friendly_name >>

\* Between two polls somebody changes the state of the device.
DeviceChange(d) ==
    /\ cli = "running"
    /\ d # device
    /\ device' = d
    /\ UNCHANGED << monitor, difference, cli, status_result, previous_status,
                    emitted_result, echoed >>
    /\ UNCHANGED << retry_vars, login_vars, setter_vars, parse_vars, friendly_name >>

\* Projector.__init__'s default for retry_limit_count.
retry_limit_count == 3

\* The client the command line constructs (with the default attempt limit), a
\* device, and the status command started with its two flags.
InitStatus ==
    /\ Constructed
    /\ friendly_name = "none"
    /\ _retry_limit_count = retry_limit_count
    /\ response_text = << >>
    /\ parsed = Unparsed
    /\ device \in Devices
    /\ monitor \in BOOLEAN
    /\ difference \in BOOLEAN
    /\ cli = "running"
    /\ status_result = EmptyDict
    /\ previous_status = EmptyDict
    /\ emitted_result = EmptyDict
    /\ echoed = NothingEchoed

NextStatus ==
    \/ \E result \in ControlOutcomes, newline \in BOOLEAN : Poll(result, newline)
    \/ \E d \in Devices : DeviceChange(d)

SpecStatus == InitStatus /\ [][NextStatus]_vars

----------------------------------------------------------------------------
\* The control subcommands of the command line.

\* The field names of STATUS_VALUE_TO_CODE_MAP, character by character.
Spelling ==
    "Power Status" :> << "P", "o", "w", "e", "r", " ", "S", "t", "a", "t", "u", "s" >>
    @@ "Source" :> << "S", "o", "u", "r", "c", "e" >>
    @@ "Display Mode" :> << "D", "i", "s", "p", "l", "a", "y", " ", "M", "o", "d", "e" >>
    @@ "Projection" :> << "P", "r", "o", "j", "e", "c", "t", "i", "o", "n" >>
    @@ "Brightness Mode" :> << "B", "r", "i", "g", "h", "t", "n", "e", "s", "s", " ", "M", "o", "d", "e" >>
    @@ "AV Mute" :> << "A", "V", " ", "M", "u", "t", "e" >>
    @@ "Power Mode" :> << "P", "o", "w", "e", "r", " ", "M", "o", "d", "e" >>
    @@ "Freeze" :> << "F", "r", "e", "e", "z", "e" >>
    @@ "Logo" :> << "L", "o", "g", "o" >>
    @@ "Color Space" :> << "C", "o", "l", "o", "r", " ", "S", "p", "a", "c", "e" >>
    @@ "Background Color" :> << "B", "a", "c", "k", "g", "r", "o", "u", "n", "d", " ", "C", "o", "l", "o", "r" >>
    @@ "Wall Color" :> << "W", "a", "l", "l", " ", "C", "o", "l", "o", "r" >>
    @@ "Always On" :> << "A", "l", "w", "a", "y", "s", " ", "O", "n" >>
    @@ "Gamma" :> << "G", "a", "m", "m", "a" >>
    @@ "Color Temperature" :> << "C", "o", "l", "o", "r", " ", "T", "e", "m", "p", "e", "r", "a", "t", "u", "r", "e" >>
    @@ "Aspect Ratio" :> << "A", "s", "p", "e", "c", "t", " ", "R", "a", "t", "i", "o" >>
    @@ "High Altitude" :> << "H", "i", "g", "h", " ", "A", "l", "t", "i", "t", "u", "d", "e" >>
    @@ "Direct Power On" :> << "D", "i", "r", "e", "c", "t", " ", "P", "o", "w", "e", "r", " ", "O", "n" >>
    @@ "Information Hide" :> << "I", "n", "f", "o", "r", "m", "a", "t", "i", "o", "n", " ", "H", "i", "d", "e" >>
    @@ "Display Mode Lock" :> << "D", "i", "s", "p", "l", "a", "y", " ", "M", "o", "d", "e", " ", "L", "o", "c", "k" >>
    @@ "Keypad Lock" :> << "K", "e", "y", "p", "a", "d", " ", "L", "o", "c", "k" >>

\* The upper-case letters and their lower-case forms.
UpperCase ==
    "A" :> "a" @@ "B" :> "b" @@ "C" :> "c" @@ "D" :> "d" @@ "E" :> "e" @@ "F" :> "f"
    @@ "G" :> "g" @@ "H" :> "h" @@ "I" :> "i" @@ "J" :> "j" @@ "K" :> "k" @@ "L" :> "l"
    @@ "M" :> "m" @@ "N" :> "n" @@ "O" :> "o" @@ "P" :> "p" @@ "Q" :> "q" @@ "R" :> "r"
    @@ "S" :> "s" @@ "T" :> "t" @@ "U" :> "u" @@ "V" :> "v" @@ "W" :> "w" @@ "X" :> "x"
    @@ "Y" :> "y" @@ "Z" :> "z"

LowerCase == {UpperCase[c] : c \in DOMAIN UpperCase}
DecimalDigits == {"0", "1", "2", "3", "4", "5", "6", "7", "8", "9"}

\* re.sub(r"([A-Z]+)([A-Z][a-z])", r"\1_\2", word): an underscore in front of
\* a capital that follows a capital and is followed by a small letter.
RECURSIVE split_acronyms(_, _)
split_acronyms(word, i) ==
    IF i > Len(word) THEN << >>
    ELSE (IF /\ i > 1 /\ i < Len(word)
             /\ word[i - 1] \in DOMAIN UpperCase
             /\ word[i] \in DOMAIN UpperCase
             /\ word[i + 1] \in LowerCase
          THEN << "_", word[i] >> ELSE << word[i] >>) \o split_acronyms(word, i + 1)

\* re.sub(r"([a-z\d])([A-Z])", r"\1_\2", word): an underscore between a small
\* letter or digit and the capital that follows it.
RECURSIVE split_words(_, _)
split_words(word, i) ==
    IF i > Len(word) THEN << >>
    ELSE (IF /\ i > 1
             /\ word[i - 1] \in LowerCase \cup DecimalDigits
             /\ word[i] \in DOMAIN UpperCase
          THEN << "_", word[i] >> ELSE << word[i] >>) \o split_words(word, i + 1)

\* word.replace("-", "_")
dashes_replaced(word) == [i \in 1..Len(word) |-> IF word[i] = "-" THEN "_" ELSE word[i]]

\* word.lower()
lower(word) ==
    [i \in 1..Len(word) |-> IF word[i] \in DOMAIN UpperCase THEN UpperCase[word[i]] ELSE word[i]]

\* inflection.underscore(word)
underscore(word) == lower(dashes_replaced(split_words(split_acronyms(word, 1), 1)))

\* fn_name = inflection.underscore(name)
fn_name(name) == Join(underscore(Spelling[name]))

\* The public methods of Projector that take no value beside the triggers
\* (control and the private attributes are left out: they take part in no
\* lookup of the model).
NoValueMethods == {"status", "info", "mac_address", "url"}

\* What getattr(projector, fn_name) finds.
Attributes == DOMAIN Methods \cup {"power_status"} \cup NoValueMethods

\* Whether projector_cmd(value) is a call the method accepts.
accepts_value(fn) ==
    fn = "power_status" \/ (fn \in DOMAIN Methods /\ Methods[fn].arg # "none")

\* The subcommand of a field name run with one of the labels click.Choice
\* admits: getattr, then projector_cmd(value).  The exception it raises ends
\* the command; result is how control() ends.
ControlCommand(name, value, result) ==
    /\ pc = "idle"
    /\ friendly_name' = name
    /\ IF fn_name(name) \notin Attributes
       THEN /\ method' = "none"
            /\ argument' = StrArg(value)
            /\ posted' = << >>
            /\ raised' = "AttributeError"
            /\ control_result' = "none"
       ELSE IF ~accepts_value(fn_name(name))
       THEN /\ method' = fn_name(name)
            /\ argument' = StrArg(value)
            /\ posted' = << >>
            /\ raised' = "TypeError"
            /\ control_result' = "none"
       ELSE IF fn_name(name) = "power_status"
       THEN InvokePowerStatus(StrArg(value), result)
       ELSE Invoke(fn_name(name), StrArg(value), result)
    /\ UNCHANGED retry_vars
    /\ UNCHANGED login_vars
    /\ UNCHANGED << parse_vars, status_vars >>

\* for name in STATUS_VALUE_TO_CODE_MAP: one subcommand per field name, its
\* values the labels of the field.
NextControl ==
    \E name \in DOMAIN STATUS_VALUE_TO_CODE_MAP :
        \E value \in DOMAIN STATUS_VALUE_TO_CODE_MAP[name], result \in ControlOutcomes :
            ControlCommand(name, value, result)

SpecControl == Init /\ [][NextControl]_vars

----------------------------------------------------------------------------
\* Vocabulary of the properties.

RequestEndpoints == {"control.tgi", "Info.htm"}
LoginErrors == {"LoginPageFailure", "LoginFailure"}
\* The answer is an HTTP response with a status outside 2xx.
Non2xx(resp) == resp.status # 0 /\ resp.status \notin 200..299
\* The answer is a 2xx response whose body is the login frameset.
LoginMarker(resp) == resp.status \in 200..299 /\ resp.body = "login_frame"
\* The credential submission failed or its answer carried no ATOP cookie.
SubmissionFailed(resp) == resp.status = 0 \/ Non2xx(resp) \/ ~resp.cookie
AttemptsRemain == attempt_number < _retry_limit_count

\* C1: one call of control() or info() sends its request at most
\* _retry_limit_count times, and the loop never sleeps for a further attempt
\* once the limit is reached; with limit 3 and three NotLoggedIn answers the
\* call ends after the third request.
C1_AtMostLimitRequests ==
    operation \in Retried =>
        /\ requests_sent <= _retry_limit_count
        /\ attempt_number <= _retry_limit_count
        /\ (pc = "wait" => AttemptsRemain)

C1_Witness ==
    /\ pc = "done"
    /\ operation \in Retried
    /\ _retry_limit_count = 3
    /\ requests_sent = 3
    /\ logins = 3
    /\ outcome = "NotLoggedIn"

\* C2: in control() and info() every login performed is followed by a retry of
\* the request: a call in which no login failed never ends with a login as its
\* last exchange (the claim as stated).
C2_EveryLoginIsFollowedByARetry ==
    (pc = "done" /\ operation \in Retried /\ outcome \notin LoginErrors)
        => last.endpoint \in RequestEndpoints

\* C3: whenever a request of any operation is answered with the login
\* frameset, the session is LoggedOut right after the answer has been
\* inspected and the request fails with NotLoggedIn (the claim as stated).
C3_LoginMarkerForcesLoggedOut ==
    [][ (pc = "request" /\ LoginMarker(last'))
            => (~_logged_in' /\ exception' = "NotLoggedIn") ]_vars

\* C4: no request is sent to control.tgi or Info.htm while the session is
\* LoggedOut (the claim as stated).
C4_NoRequestWhileLoggedOut ==
    [][ (requests_sent' = requests_sent + 1) => _logged_in ]_vars

\* C5: in every public operation a NotLoggedIn answer received while attempts
\* remain is followed by a re-login instead of being surfaced (the claim as
\* stated).
C5_NotLoggedInIsRetriedEverywhere ==
    [][ (pc = "request" /\ exception' = "NotLoggedIn" /\ AttemptsRemain)
            => pc' = "login_page" ]_vars

\* C6: in control() and info() an attempt that fails with a connection error
\* while attempts remain leads to the sleep and then to the next attempt, with
\* no login invoked, no exchange with the login endpoints and the session
\* state unchanged in between.
C6_ConnectionErrorRetriedWithoutLogin ==
    [][ /\ (pc = "request" /\ operation \in Retried /\ last'.status = 0 /\ AttemptsRemain)
            => (pc' = "wait" /\ UNCHANGED << _logged_in, atop, logins >>)
        /\ (pc = "wait")
            => (pc' = "request" /\ UNCHANGED << _logged_in, atop, logins, last >>) ]_vars

C6_Witness ==
    /\ operation \in Retried
    /\ last.endpoint \in RequestEndpoints
    /\ requests_sent = 2
    /\ waits = 1
    /\ logins = 0
    /\ outcome = "ok"

C8_LastAttemptFailureSurfaces ==
    (pc = "done" /\ operation \in Retried /\ outcome # "ok"
        /\ requests_sent = _retry_limit_count)
        => outcome = exception

\* C9: when the credential submission of the forced re-login fails, the call
\* ends at once with LoginFailure, attempts remaining or not: no sleep, no
\* attempt and no login follows.
C9_LoginFailureIsFatal ==
    [][ /\ (pc = "login_post" /\ SubmissionFailed(last'))
            => /\ pc' = "done"
               /\ outcome' = "LoginFailure"
               /\ UNCHANGED << requests_sent, logins, waits, attempt_number >>
        /\ (pc = "done" /\ outcome = "LoginFailure")
            => (pc' = "idle" /\ UNCHANGED << requests_sent, logins, waits, last >>) ]_vars

C9_Witness ==
    /\ pc = "idle"
    /\ operation \in Retried
    /\ outcome = "LoginFailure"
    /\ AttemptsRemain
    /\ last.endpoint = "login.tgi"

\* C10: a LoginPageFailure of the forced re-login is surfaced to the caller
\* only when no attempts remain (the claim as stated).
C10_LoginPageFailureIsRetried ==
    (pc = "done" /\ operation \in Retried /\ outcome = "LoginPageFailure")
        => ~AttemptsRemain

\* C11: a client is constructed LoggedOut, and _logged_in turns True only in
\* the step that ends a login: the page fetched just before yielded the
\* challenge, and the answer to the POST to /tgi/login.tgi has a success
\* status and carries the ATOP cookie.
C11_LoggedInOnlyByCompletedLogin ==
    /\ ~_logged_in
    /\ [][ (_logged_in' /\ ~_logged_in)
            => /\ pc = "login_post"
               /\ last.endpoint = "login.htm" /\ last.body = "challenge"
               /\ challenge # ""
               /\ last'.endpoint = "login.tgi"
               /\ last'.status \in 200..299
               /\ last'.cookie ]_vars

C11_Witness ==
    /\ _logged_in
    /\ pc = "done"
    /\ last.endpoint = "login.tgi"
    /\ last.cookie

\* C12: a login that fails, with LoginPageFailure or LoginFailure, ends the
\* call with that error and leaves the session LoggedOut.
C12_FailedLoginLeavesLoggedOut ==
    [][ (pc \in {"login_page", "login_post"} /\ outcome' \in LoginErrors)
            => (~_logged_in' /\ pc' = "done") ]_vars

C12_Witness ==
    /\ pc = "done"
    /\ outcome = "LoginFailure"
    /\ last.endpoint = "login.tgi" /\ last.status = 200 /\ ~last.cookie
    /\ atop
    /\ ~_logged_in

\* C13: every submission to /tgi/login.tgi follows, in the same login, a
\* fetch of /login.htm that yielded a challenge; its Response is the digest
\* over that challenge, which no earlier submission used; and a login whose
\* page fetch fails or lacks the challenge raises LoginPageFailure and
\* submits nothing.
C13_ChallengeUsedOnce ==
    [][ /\ (login_posts' # login_posts)
            => /\ pc = "login_post"
               /\ last.endpoint = "login.htm" /\ last.status # 0 /\ last.body = "challenge"
               /\ Len(login_posts') = Len(login_posts) + 1
               /\ SubSeq(login_posts', 1, Len(login_posts)) = login_posts
               /\ login_posts'[Len(login_posts')].Response =
                    md5_hexdigest(_username \o _password \o ChallengeOf(issued))
               /\ \A i \in 1..Len(login_posts) :
                    login_posts[i].Response # login_posts'[Len(login_posts')].Response
        /\ (pc = "login_page" /\ (last'.status = 0 \/ last'.body # "challenge"))
            => /\ pc' = "done"
               /\ outcome' = "LoginPageFailure"
               /\ login_posts' = login_posts
        /\ (pc = "done") => (login_posts' = login_posts) ]_vars

C13_Witness ==
    /\ Len(login_posts) = 2
    /\ login_posts[1].Response = md5_hexdigest("adminadminabc123")
    /\ login_posts[2].Response # login_posts[1].Response
    /\ outcome = "LoginPageFailure"

\* The call made last is a setter that takes an int or a label of its field.
LabelSetterCalled == method \in DOMAIN Methods /\ Methods[method].arg = "label"
\* The field the method called last sets.
FieldSet == IF method = "power_status" THEN "Power Status" ELSE Methods[method].field
\* The one form field the call passed to control().
Posted(param, text) == posted = << [param |-> param, value |-> StrValue(text)] >>

\* C14: a valued setter of an enumerated field called with a label of the
\* field's table posts the wire code that the table translates to that label,
\* and called with an int posts its decimal string (the claim as stated).
C14_SetterPostsCodeOfLabel ==
    LabelSetterCalled =>
        /\ (argument.kind = "str" /\ argument.str \in DOMAIN STATUS_VALUE_TO_CODE_MAP[FieldSet])
            => /\ Len(posted) = 1
               /\ posted[1].param = Methods[method].param
               /\ posted[1].value.kind = "str"
               /\ posted[1].value.val \in DOMAIN STATUS_VALUE_MAP[FieldSet].table
               /\ STATUS_VALUE_MAP[FieldSet].table[posted[1].value.val] = argument.str
        /\ (argument.kind = "int")
            => Posted(Methods[method].param, str(argument.int))

\* C15: a valued setter called with a string that is no label of its field's
\* table raises before anything is passed to control() (the claim as stated).
C15_UnknownLabelRaisesBeforeRequest ==
    (/\ LabelSetterCalled \/ method = "power_status"
     /\ argument.kind = "str"
     /\ argument.str \notin DOMAIN STATUS_VALUE_TO_CODE_MAP[FieldSet])
        => (posted = << >> /\ raised # "none")

\* C16: power_status(v) posts exactly the power-on button when v is "On" or 1
\* and exactly the power-off button when v is "Off" or 0, and power_on() /
\* power_off() post btn_powon / btn_powoff (the claim as stated).
C16_PowerStatusPressesTheButton ==
    /\ (method = "power_status" /\ argument \in {StrArg("On"), IntArg(1)})
        => Posted("btn_powon", "Power On")
    /\ (method = "power_status" /\ argument \in {StrArg("Off"), IntArg(0)})
        => Posted("btn_powoff", "Power Off")
    /\ (method = "power_on") => Posted("btn_powon", "Power On")
    /\ (method = "power_off") => Posted("btn_powoff", "Power Off")

\* The strings of the grammar '{' (IDENT ':' QUOTED_STRING [','])* '}' and the
\* pairs they spell, read from position i on.
RECURSIVE GrammarPairs(_, _, _)
GrammarPairs(t, i, acc) ==
    IF i > Len(t) THEN [ok |-> FALSE, pairs |-> << >>]
    ELSE IF t[i] = "}" THEN [ok |-> i = Len(t), pairs |-> acc]
    ELSE LET colon == word_end(t, i)
             close == quote_end(t, colon + 2)
         IN  IF /\ colon > i
                /\ colon + 1 <= Len(t)
                /\ t[colon] = ":"
                /\ t[colon + 1] = "\""
                /\ close # 0
             THEN GrammarPairs(t, IF close < Len(t) /\ t[close + 1] = "," THEN close + 2
                                                                      ELSE close + 1,
                               Append(acc, << Join(SubSeq(t, i, colon - 1)),
                                              SubSeq(t, colon + 2, close - 1) >>))
             ELSE [ok |-> FALSE, pairs |-> << >>]

Grammar(t) ==
    IF t # << >> /\ Head(t) = "{" THEN GrammarPairs(t, 2, << >>)
    ELSE [ok |-> FALSE, pairs |-> << >>]

\* The pairs of a dict in the order of its keys.
Items(d) == [i \in 1..Len(d.keys) |-> << d.keys[i], d.at[d.keys[i]] >>]
UniqueCodes(pairs) ==
    \A i, j \in 1..Len(pairs) : pairs[i][1] = pairs[j][1] => i = j

\* C20: the parser accepts exactly the strings of the grammar
\* '{' (IDENT ':' QUOTED_STRING [','])* '}', the one with zero pairs included,
\* and returns their pairs in order of appearance; every other string fails
\* with a parse error that carries the original text.
C20_ParserAcceptsExactlyTheGrammar ==
    parsed # Unparsed =>
        IF Grammar(response_text).ok
        THEN /\ parsed.raised = "none"
             /\ UniqueCodes(Grammar(response_text).pairs)
                    => Items(parsed.result) = Grammar(response_text).pairs
        ELSE /\ parsed.raised = "ParseException"
             /\ parsed.pstr = response_text

\* What the parser does keep of it: a string with one pair or more is accepted
\* with its pairs in order, a refused string comes back in the exception, and
\* an accepted text starts with a string of the grammar.
ParsedAsTheGrammarSays ==
    parsed # Unparsed =>
        /\ (Grammar(response_text).ok /\ Grammar(response_text).pairs # << >>)
              => /\ parsed.raised = "none"
                 /\ UniqueCodes(Grammar(response_text).pairs)
                        => Items(parsed.result) = Grammar(response_text).pairs
        /\ parsed.raised = "ParseException" => parsed.pstr = response_text
        /\ parsed.raised = "none" =>
              \E n \in 1..Len(response_text) : Grammar(SubSeq(response_text, 1, n)).ok

\* The codes of the parsed response that STATUS_TO_NAME_MAP gives a name.
Described ==
    {k \in DOMAIN parsed.result.at :
        k \in DOMAIN STATUS_TO_NAME_MAP /\ STATUS_TO_NAME_MAP[k] # None}
NameOf(k) == STATUS_TO_NAME_MAP[k][1]
\* The poll's status() returned.
StatusReturned == cli \in {"running", "exited"}

\* C17: status() never fails because of a wire code without a descriptor:
\* for a well-formed response the codes without a name (None in
\* STATUS_TO_NAME_MAP, or absent from it) are dropped and all other fields
\* are returned.
C17_UndescribedCodesAreDropped ==
    parsed.raised = "none" =>
        /\ StatusReturned
        /\ DOMAIN status_result.at = {NameOf(k) : k \in Described}

\* C18: an enumerated field whose raw value is a key of its table is returned
\* as the label of that key, any other raw value is returned unchanged under
\* the field's name, and status() returns (for a well-formed response all of
\* whose codes are keys of STATUS_TO_NAME_MAP).
C18_EnumeratedFieldTranslated ==
    (parsed.raised = "none" /\ DOMAIN parsed.result.at \subseteq DOMAIN STATUS_TO_NAME_MAP) =>
        /\ StatusReturned
        /\ \A k \in Described :
              STATUS_VALUE_MAP[NameOf(k)].kind = "mapping" =>
                 LET table == STATUS_VALUE_MAP[NameOf(k)].table
                     raw == Join(parsed.result.at[k])
                 IN  /\ NameOf(k) \in DOMAIN status_result.at
                     /\ status_result.at[NameOf(k)] =
                           StrValue(IF raw \in DOMAIN table THEN table[raw] ELSE raw)

\* Power Status "9" came back as "9" next to a translated Brightness.
C18_Witness ==
    /\ parsed.raised = "none"
    /\ StatusReturned
    /\ "pw" \in DOMAIN parsed.result.at
    /\ parsed.result.at["pw"] = << "9" >>
    /\ status_result.at = ("Power Status" :> StrValue("9") @@ "Brightness" :> IntValue(50))

\* The fields of snapshot current that are absent from snapshot previous or
\* whose value differs from it.
Delta(current, previous) ==
    {n \in DOMAIN current.at : n \notin DOMAIN previous.at \/ current.at[n] # previous.at[n]}

\* C19: with difference mode on, a poll emits exactly the fields that are
\* absent from the previous poll's snapshot or differ from it (the first poll
\* emits every field), echoes them, and echoes nothing when no field changed.
C19_PollEmitsTheDelta ==
    [][ (difference /\ cli = "running" /\ cli' \in {"running", "exited"} /\ device' = device)
            => /\ DOMAIN emitted_result'.at = Delta(status_result', status_result)
               /\ \A n \in DOMAIN emitted_result'.at :
                     emitted_result'.at[n] = status_result'.at[n]
               /\ echoed'.printed = (Delta(status_result', status_result) # {})
               /\ echoed'.printed => echoed'.value = emitted_result' ]_vars

\* Brightness went from 50 to 60 next to an unchanged Power Status and the
\* poll echoed {"Brightness": 60}.
C19_Witness ==
    /\ difference
    /\ StatusReturned
    /\ status_result.at = ("Power Status" :> StrValue("On") @@ "Brightness" :> IntValue(60))
    /\ emitted_result.at = ("Brightness" :> IntValue(60))
    /\ echoed = [printed |-> TRUE, value |-> emitted_result]

\* The request of the method called last failed: control() raised.
RequestFailed == control_result \notin {"none", "ok"}

\* C21: when the request of a setter or trigger fails, the method raises the
\* very error control() raised, and does not return normally.
C21_SetterRaisesWhatControlRaised ==
    RequestFailed => (raised = control_result /\ raised # "none")

\* brightness(1) raised the ConnectionError of its request.
C21_Witness ==
    /\ method = "brightness"
    /\ argument = IntArg(1)
    /\ control_result = "ConnectionError"
    /\ raised = "ConnectionError"

\* The wire codes listed with no field name.
Reserved == {"j", "m", "p", "v", "w", "E", "I", "K", "R", "S", "T", "e", "g", "Z"}
\* The poll's status() translated the response.
StatusTranslated == parsed.raised = "none" /\ StatusReturned

\* The reserved codes are exactly the codes STATUS_TO_NAME_MAP lists with None.
ReservedAreTheUnnamedCodes ==
    Reserved = {k \in DOMAIN STATUS_TO_NAME_MAP : STATUS_TO_NAME_MAP[k] = None}

\* C22: the translated status has no entry for a reserved wire code: its keys
\* are exactly the field names of the codes of the response that are not
\* reserved, one entry each, and none of them is a code or None.
C22_ReservedCodesExcluded ==
    StatusTranslated =>
        /\ DOMAIN status_result.at =
              {NameOf(k) : k \in DOMAIN parsed.result.at \ Reserved}
        /\ DOMAIN status_result.at \cap (Reserved \cup {"None"}) = {}
        /\ Len(status_result.keys) = Cardinality(DOMAIN parsed.result.at \ Reserved)

\* The device reported j next to the power status and the brightness, and
\* status() returned the two fields.
C22_Witness ==
    /\ StatusTranslated
    /\ DOMAIN parsed.result.at = {"pw", "c", "j"}
    /\ status_result.at = ("Power Status" :> StrValue("On") @@ "Brightness" :> IntValue(50))

\* The device still is in the state the last read found it in.
DeviceUnchanged == response_text = blob(device)

C24_LoginBodyIsTheFixedForm ==
    \A i \in 1..Len(login_posts) :
        /\ DOMAIN login_posts[i] = {"user", "Username", "Password", "Challenge", "Response"}
        /\ login_posts[i].user = "0"
        /\ login_posts[i].Username = "1"
        /\ login_posts[i].Password = ""
        /\ login_posts[i].Challenge = ""
        /\ \E n \in 1..issued :
              login_posts[i].Response = md5_hexdigest("admin" \o "admin" \o ChallengeOf(n))

\* The first login hashed "adminadminabc123" and succeeded.
C24_Witness ==
    /\ Len(login_posts) = 1
    /\ login_posts[1] = [user |-> "0", Username |-> "1", Password |-> "", Challenge |-> "",
                         Response |-> md5_hexdigest("adminadminabc123")]
    /\ _logged_in

\* C25: every control subcommand run with a legal label of its field resolves
\* to a Projector method that accepts a value, and the method passes the
\* field's form parameter with the wire code of the label to control(); no
\* subcommand fails for lack of a handler (the claim as stated).
C25_SubcommandReachesItsSetter ==
    friendly_name # "none" =>
        /\ raised \notin {"AttributeError", "TypeError", "KeyError"}
        /\ method = "power_status" \/ (method \in DOMAIN Methods /\ Methods[method].arg # "none")
        /\ Len(posted) = 1
        /\ method # "power_status" =>
              /\ Methods[method].field = friendly_name
              /\ posted[1].param = Methods[method].param
              /\ posted[1].value = StrValue(STATUS_VALUE_TO_CODE_MAP[friendly_name][argument.str])

\* C26: every field name STATUS_TO_NAME_MAP assigns to a wire code has a
\* translator in STATUS_VALUE_MAP, an enumerated table or int, and status()
\* never ends in NotImplementedError.
C26_EveryNamedFieldHasATranslator ==
    /\ \A k \in DOMAIN STATUS_TO_NAME_MAP :
          STATUS_TO_NAME_MAP[k] # None =>
             /\ NameOf(k) \in DOMAIN STATUS_VALUE_MAP
             /\ STATUS_VALUE_MAP[NameOf(k)].kind \in {"mapping", "int"}
    /\ cli # "NotImplementedError"

\* status() translated an enumerated field and an int field.
C26_Witness ==
    /\ StatusTranslated
    /\ status_result.at = ("Power Status" :> StrValue("9") @@ "Brightness" :> IntValue(60))

\* A call of control() or info() is under way.
CallRunning == operation \in Retried /\ pc \notin {"idle", "done"}

\* C27: every call of control() or info() eventually ends, returning or
\* raising, and it sends at most _retry_limit_count requests and logs in at
\* most _retry_limit_count times, whatever the device answers.
C27_CallTerminates ==
    /\ [](operation \in Retried =>
            (requests_sent <= _retry_limit_count /\ logins <= _retry_limit_count))
    /\ (CallRunning ~> (pc = "done" /\ outcome # "none"))

\* The device answered both requests of an info() with the login frameset:
\* the call ended after two requests and two logins.
C27_Witness ==
    /\ pc = "done"
    /\ operation = "info"
    /\ _retry_limit_count = 2
    /\ requests_sent = 2
    /\ logins = 2
    /\ waits = 1
    /\ outcome = "NotLoggedIn"

====
